---- MODULE Spec2Model ----
(***************************************************************************)
(* Model of scripts/lancedb-server.py: a FastAPI service in front of one   *)
(* LanceDB connection.                                                     *)
(*                                                                         *)
(* Spec      the request handlers, one action per route.  Every handler is *)
(*           an "async def" with no await inside, so on the single event   *)
(*           loop it runs from its first line to its response in one step. *)
(*           The storage engine is the environment: each of its calls does *)
(*           what LanceDB documents, or raises (input "fail").             *)
(* SpecLoop  the scheduling of those handlers on uvicorn's event loop.     *)
(* SpecNorm  the pure functions _to_serializable and _rows_to_dicts.       *)
(***************************************************************************)
EXTENDS Integers, Sequences, FiniteSets, TLC

VARIABLES tables, rows, last, queued, running, served, raw, out

dbvars == <<tables, rows, last>>
loopvars == <<queued, running, served>>
normvars == <<raw, out>>
vars == <<tables, rows, last, queued, running, served, raw, out>>

----------------------------------------------------------------------------
(* Bounds of the model *)

MaxRows == 2
MaxBatch == 2

Names == {"docs", "notes"}
Docs == {"hello", "world"}
Vectors == {1, 2}
Limits == {1, 2}
Metrics == {"cosine", ""}

(* filter of a request body: None / missing, the empty string, or a predicate *)
Absent == "<absent>"
Predicates == {"text = 'hello'", "text = 'nobody'"}
Filters == {Absent, ""} \cup Predicates
SearchFilters == {Absent, "", "text = 'hello'"}

Batches == UNION {[1..n -> Docs] : n \in 0..MaxBatch}

Min(a, b) == IF a < b THEN a ELSE b

Elems(s) == {s[i] : i \in 1..Len(s)}

----------------------------------------------------------------------------
(* The storage engine, as the handlers use it *)

(* where-clause evaluation of the engine *)
Matches(f, d) ==
    CASE f = "text = 'hello'" -> d = "hello"
      [] f = "text = 'nobody'" -> FALSE
      [] OTHER -> TRUE

(* the vector column of a document and the engine's distance *)
VectorOf(d) == IF d = "hello" THEN 1 ELSE 2

Distance(v, d) == IF v >= VectorOf(d) THEN v - VectorOf(d) ELSE VectorOf(d) - v

RECURSIVE InsertByDistance(_, _, _)
InsertByDistance(v, d, s) ==
    IF s = <<>> THEN <<d>>
    ELSE IF Distance(v, d) < Distance(v, Head(s)) THEN <<d>> \o s
    ELSE <<Head(s)>> \o InsertByDistance(v, d, Tail(s))

(* nearest first; rows at the same distance keep the engine's order *)
RECURSIVE Nearest(_, _)
Nearest(v, s) ==
    IF s = <<>> THEN <<>>
    ELSE InsertByDistance(v, s[Len(s)], Nearest(v, SubSeq(s, 1, Len(s) - 1)))

Where(f, s) == SelectSeq(s, LAMBDA d : Matches(f, d))

Limit(n, s) == SubSeq(s, 1, Min(n, Len(s)))

----------------------------------------------------------------------------
(* Python values, as trees.  kind is the runtime type; v the payload of a  *)
(* scalar, written as text; items the elements of a container; keys the    *)
(* keys of a dict, aligned with items.                                     *)

Scalar(kind, v) == [kind |-> kind, v |-> v, keys |-> <<>>, items |-> <<>>]
Container(kind, items) == [kind |-> kind, v |-> "", keys |-> <<>>, items |-> items]
Dict(keys, items) == [kind |-> "dict", v |-> "", keys |-> keys, items |-> items]

(* bytes.decode("utf-8", errors="replace"): an invalid sequence becomes U+FFFD *)
decode(b) == IF b = "\\xff" THEN "\\ufffd" ELSE b

(* numpy's item(): the builtin type nearest to a numpy scalar *)
item(x) ==
    CASE x.kind = "np.int64" -> Scalar("int", x.v)
      [] x.kind = "np.float32" -> Scalar("float", x.v)
      [] x.kind = "np.bool_" -> Scalar("bool", x.v)
      [] OTHER -> x

(* ndarray.tolist(): the array's own dimensions become nested lists and    *)
(* each element goes through item(); the elements of an object array are   *)
(* Python objects and come back as they are                                *)
RECURSIVE tolist(_)
tolist(a) ==
    IF a.kind = "ndarray"
    THEN Container("list", [i \in 1..Len(a.items) |-> tolist(a.items[i])])
    ELSE IF a.kind = "ndarray[object]"
    THEN Container("list", a.items)
    ELSE item(a)

(* pyarrow's to_pylist(): as_py() of each element; a list element becomes  *)
(* a list, a binary element stays bytes                                    *)
RECURSIVE to_pylist(_)
to_pylist(a) ==
    IF a.kind = "pa.Array"
    THEN Container("list", [i \in 1..Len(a.items) |-> to_pylist(a.items[i])])
    ELSE a

RECURSIVE to_serializable(_)
to_serializable(value) ==
    CASE value.kind = "np.int64" -> Scalar("int", value.v)
      [] value.kind = "np.float32" -> Scalar("float", value.v)
      [] value.kind \in {"ndarray", "ndarray[object]"} -> tolist(value)
      [] value.kind = "np.bool_" -> Scalar("bool", value.v)
      [] value.kind = "bytes" -> Scalar("str", decode(value.v))
      [] value.kind = "pa.Array" -> to_pylist(value)
      [] value.kind = "list" ->
            Container("list",
                [i \in 1..Len(value.items) |-> to_serializable(value.items[i])])
      [] value.kind = "dict" ->
            Dict(value.keys,
                [i \in 1..Len(value.items) |-> to_serializable(value.items[i])])
      [] OTHER -> value

(* A raw result set: shape says which branch of _rows_to_dicts takes it.   *)
(*   "table"   has to_pandas; records are df.to_dict(orient="records")     *)
(*   "pydict"  has to_pydict; keys and one column (a sequence) per key     *)
(*   "list"    a list of rows                                              *)
(*   "iter"    any other iterable of rows                                  *)
RawSet(shape, keys, columns, records) ==
    [shape |-> shape, keys |-> keys, columns |-> columns, records |-> records]

rows_to_dicts(table_result) ==
    LET rws ==
            IF table_result.shape = "pydict"
            THEN LET keys == table_result.keys
                     count == IF keys # <<>> THEN Len(table_result.columns[1]) ELSE 0
                 IN  [i \in 1..count |->
                        Dict(keys, [k \in 1..Len(keys) |-> table_result.columns[k][i]])]
            ELSE table_result.records
    IN  [i \in 1..Len(rws) |-> to_serializable(rws[i])]

----------------------------------------------------------------------------
(* Responses *)

NoResponse ==
    [op |-> "startup", name |-> "", status |-> 0, detail |-> "",
     existed |-> FALSE, before |-> <<>>, data |-> <<>>, filter |-> Absent,
     calls |-> <<>>, raised |-> {}, n |-> 0, results |-> <<>>, listing |-> {}]

(* the request, the table as the request found it, and the response *)
Response(op, name, data, filter, status, detail, calls, raised, n, results, listing) ==
    [op |-> op, name |-> name, status |-> status, detail |-> detail,
     existed |-> name \in tables,
     before |-> IF name \in tables THEN rows[name] ELSE <<>>,
     data |-> data, filter |-> filter,
     calls |-> calls, raised |-> raised, n |-> n, results |-> results,
     listing |-> listing]

----------------------------------------------------------------------------
(* _get_table: db.open_table(name), every exception answered with 404 *)

(* mutant: open_table that opens a table whether it is there or not *)
get_table_unchecked(name, fail) == "open_table" \notin fail

get_table(name, fail) == name \in tables /\ "open_table" \notin fail

(* table.count_rows(), and len(table.to_pandas()) when that raises *)
count_calls(fail) ==
    IF "count_rows" \in fail THEN <<"count_rows", "to_pandas">> ELSE <<"count_rows">>

count_raises(fail) == {"count_rows", "to_pandas"} \subseteq fail

count_value(name) == Len(rows[name])

(* what an unhandled exception of a handler becomes in the framework *)
Unhandled == "Internal Server Error"

(* str(e) of an engine exception *)
EngineMessage == "engine message"

----------------------------------------------------------------------------
(* The rows the engine hands back (to_arrow); to_pandas and to_dict give   *)
(* text as str, the vector column as an ndarray of float32                 *)

Record(d) ==
    Dict(<<"text", "vector">>,
         <<Scalar("str", d), Container("ndarray", <<Scalar("np.float32", ToString(VectorOf(d)))>>)>>)

Scored(v, d) ==
    Dict(<<"text", "vector", "_distance">>,
         <<Scalar("str", d), Container("ndarray", <<Scalar("np.float32", ToString(VectorOf(d)))>>),
           Scalar("float", ToString(Distance(v, d)))>>)

ArrowTable(records) == RawSet("table", <<>>, <<>>, records)

(* the engine's answer to search(vector).where(filter).limit(limit); the   *)
(* filter is applied before or after the ranking, as the engine chooses    *)
SearchRows(name, vector, filter, limit, prefilter) ==
    LET ranked ==
            IF filter \in {Absent, ""} THEN Limit(limit, Nearest(vector, rows[name]))
            ELSE IF prefilter THEN Limit(limit, Nearest(vector, Where(filter, rows[name])))
            ELSE Where(filter, Limit(limit, Nearest(vector, rows[name])))
    IN  ArrowTable([i \in 1..Len(ranked) |-> Scored(vector, ranked[i])])

(* the engine's answer to search().where(filter).limit(limit) *)
ScanRows(name, filter, limit) ==
    LET kept ==
            IF filter \in {Absent, ""} THEN Limit(limit, rows[name])
            ELSE Limit(limit, Where(filter, rows[name]))
    IN  ArrowTable([i \in 1..Len(kept) |-> Record(kept[i])])

----------------------------------------------------------------------------
(* GET /tables *)

list_tables(fail) ==
    /\ last' =
        IF "table_names" \in fail
        THEN Response("list", "", <<>>, Absent, 500, Unhandled,
                      <<"table_names">>, {"table_names"}, 0, <<>>, {})
        ELSE Response("list", "", <<>>, Absent, 200, "",
                      <<"table_names">>, {}, 0, <<>>, tables)
    /\ UNCHANGED <<tables, rows>>

(* POST /tables/{name} *)

(* mutant: create_table in overwrite mode, no collision reported *)
create_status_overwrite(name, data, fail) ==
    IF data = <<>> THEN 400
    ELSE IF "create_table" \in fail THEN 500
    ELSE 200

create_status(name, data, fail) ==
    IF data = <<>> THEN 400
    ELSE IF "create_table" \in fail THEN 500
    ELSE IF name \in tables THEN 409
    ELSE 200

create_table(name, data, fail) ==
    LET status == create_status(name, data, fail)
        calls == IF data = <<>> THEN <<>> ELSE <<"create_table">>
        raised == IF data # <<>> /\ "create_table" \in fail THEN {"create_table"} ELSE {}
        detail ==
            CASE status = 400 -> "Data array must not be empty"
              [] status = 409 -> "Table already exists"
              [] status = 500 -> EngineMessage
              [] OTHER -> ""
    IN  /\ last' = Response("create", name, data, Absent, status, detail, calls, raised,
                            IF status = 200 THEN Len(data) ELSE 0, <<>>, {})
        /\ IF status = 200
           THEN /\ tables' = tables \cup {name}
                /\ rows' = [rows EXCEPT ![name] = data]
           ELSE UNCHANGED <<tables, rows>>

(* DELETE /tables/{name} *)

(* mutant: drop_table that ignores a missing table *)
drop_status_ignore_missing(name, fail) ==
    IF "drop_table" \in fail THEN 404 ELSE 200

drop_status(name, fail) ==
    IF name \in tables /\ "drop_table" \notin fail THEN 200 ELSE 404

drop_table(name, fail) ==
    LET status == drop_status(name, fail)
        raised == IF name \in tables /\ "drop_table" \in fail THEN {"drop_table"} ELSE {}
    IN  /\ last' = Response("drop", name, <<>>, Absent, status,
                            IF status = 200 THEN "" ELSE "Table not found",
                            <<"drop_table">>, raised, 0, <<>>, {})
        /\ IF status = 200
           THEN /\ tables' = tables \ {name}
                /\ rows' = [rows EXCEPT ![name] = <<>>]
           ELSE UNCHANGED <<tables, rows>>

(* the engine exception _get_table swallowed, when the table is there *)
open_raised(name, fail) ==
    IF name \in tables /\ "open_table" \in fail THEN {"open_table"} ELSE {}

NotFound(op, name, data, filter, fail) ==
    Response(op, name, data, filter, 404, "Table not found",
             <<"open_table">>, open_raised(name, fail), 0, <<>>, {})

(* GET /tables/{name}/count *)

count_rows(name, fail) ==
    /\ last' =
        IF ~get_table(name, fail) THEN NotFound("count", name, <<>>, Absent, fail)
        ELSE IF count_raises(fail)
        THEN Response("count", name, <<>>, Absent, 500, Unhandled,
                      <<"open_table">> \o count_calls(fail), {"count_rows", "to_pandas"},
                      0, <<>>, {})
        ELSE Response("count", name, <<>>, Absent, 200, "",
                      <<"open_table">> \o count_calls(fail), fail \cap {"count_rows"},
                      count_value(name), <<>>, {})
    /\ UNCHANGED <<tables, rows>>

(* POST /tables/{name}/add *)

(* mutant: add_documents without the check for an empty list *)
add_status_unchecked(name, data, fail) ==
    IF ~get_table(name, fail) THEN 404
    ELSE IF "add" \in fail THEN 500
    ELSE 200

add_status(name, data, fail) ==
    IF ~get_table(name, fail) THEN 404
    ELSE IF data = <<>> THEN 400
    ELSE IF "add" \in fail THEN 500
    ELSE 200

(* mutant: an append that skips documents the table already holds *)
added_dedup(name, data) ==
    rows[name] \o SelectSeq(data, LAMBDA d : d \notin Elems(rows[name]))

added(name, data) == rows[name] \o data

add_documents(name, data, fail) ==
    LET status == add_status(name, data, fail)
    IN  /\ Len(rows[name]) + Len(data) <= MaxRows
        /\ last' =
            CASE status = 404 -> NotFound("add", name, data, Absent, fail)
              [] status = 400 ->
                    Response("add", name, data, Absent, 400, "Data array must not be empty",
                             <<"open_table">>, {}, 0, <<>>, {})
              [] status = 500 ->
                    Response("add", name, data, Absent, 500, Unhandled,
                             <<"open_table", "add">>, {"add"}, 0, <<>>, {})
              [] OTHER ->
                    Response("add", name, data, Absent, 200, "",
                             <<"open_table", "add">>, {}, Len(data), <<>>, {})
        /\ rows' = IF status = 200 THEN [rows EXCEPT ![name] = added(name, data)] ELSE rows
        /\ UNCHANGED tables

(* POST /tables/{name}/delete *)

delete_status(name, filter, fail) ==
    IF filter = Absent THEN 422
    ELSE IF ~get_table(name, fail) THEN 404
    ELSE IF filter = "" THEN 400
    ELSE IF "delete" \in fail THEN 500
    ELSE 200

(* mutant: a delete that ignores its predicate *)
remaining_none(name, filter) == <<>>

remaining(name, filter) == SelectSeq(rows[name], LAMBDA d : ~Matches(filter, d))

delete_documents(name, filter, fail) ==
    LET status == delete_status(name, filter, fail)
    IN  /\ last' =
            CASE status = 422 ->
                    Response("delete", name, <<>>, filter, 422, "Field required",
                             <<>>, {}, 0, <<>>, {})
              [] status = 404 -> NotFound("delete", name, <<>>, filter, fail)
              [] status = 400 ->
                    Response("delete", name, <<>>, filter, 400, "Filter expression is required",
                             <<"open_table">>, {}, 0, <<>>, {})
              [] status = 500 ->
                    Response("delete", name, <<>>, filter, 500, Unhandled,
                             <<"open_table", "delete">>, {"delete"}, 0, <<>>, {})
              [] OTHER ->
                    Response("delete", name, <<>>, filter, 200, "",
                             <<"open_table", "delete">>, {}, 0, <<>>, {})
        /\ rows' = IF status = 200 THEN [rows EXCEPT ![name] = remaining(name, filter)] ELSE rows
        /\ UNCHANGED tables

(* mutant: no short-circuit on an empty table *)
reaches_engine_uncounted(name, fail) ==
    get_table(name, fail) /\ ~count_raises(fail)

(* POST /tables/{name}/search and /query go on to the engine's search    *)
(* only when the table opened, was counted, and the count is not zero     *)
reaches_engine(name, fail) ==
    get_table(name, fail) /\ ~count_raises(fail) /\ count_value(name) # 0

search_calls(distance_type, filter) ==
    <<"search">>
    \o (IF distance_type # "" THEN <<"metric">> ELSE <<>>)
    \o (IF filter \notin {Absent, ""} THEN <<"where">> ELSE <<>>)
    \o <<"limit", "to_arrow">>

vector_search(name, vector, limit, distance_type, filter, prefilter, fail) ==
    LET counted == <<"open_table">> \o count_calls(fail)
    IN  /\ last' =
            IF ~get_table(name, fail) THEN NotFound("search", name, <<>>, filter, fail)
            ELSE IF count_raises(fail)
            THEN Response("search", name, <<>>, filter, 500, Unhandled,
                          counted, {"count_rows", "to_pandas"}, 0, <<>>, {})
            ELSE IF ~reaches_engine(name, fail)
            THEN Response("search", name, <<>>, filter, 200, "",
                          counted, fail \cap {"count_rows"}, 0, <<>>, {})
            ELSE IF "to_arrow" \in fail
            THEN Response("search", name, <<>>, filter, 500, Unhandled,
                          counted \o search_calls(distance_type, filter),
                          fail \cap {"count_rows", "to_arrow"}, 0, <<>>, {})
            ELSE Response("search", name, <<>>, filter, 200, "",
                          counted \o search_calls(distance_type, filter),
                          fail \cap {"count_rows"}, 0,
                          rows_to_dicts(SearchRows(name, vector, filter, limit, prefilter)), {})
        /\ UNCHANGED <<tables, rows>>

query_calls(filter) ==
    <<"search">>
    \o (IF filter \notin {Absent, ""} THEN <<"where">> ELSE <<>>)
    \o <<"limit", "to_arrow">>

query_table(name, filter, limit, fail) ==
    LET counted == <<"open_table">> \o count_calls(fail)
    IN  /\ last' =
            IF ~get_table(name, fail) THEN NotFound("query", name, <<>>, filter, fail)
            ELSE IF count_raises(fail)
            THEN Response("query", name, <<>>, filter, 500, Unhandled,
                          counted, {"count_rows", "to_pandas"}, 0, <<>>, {})
            ELSE IF ~reaches_engine(name, fail)
            THEN Response("query", name, <<>>, filter, 200, "",
                          counted, fail \cap {"count_rows"}, 0, <<>>, {})
            ELSE IF "to_arrow" \in fail
            THEN Response("query", name, <<>>, filter, 500, Unhandled,
                          counted \o query_calls(filter),
                          fail \cap {"count_rows", "to_arrow"}, 0, <<>>, {})
            ELSE Response("query", name, <<>>, filter, 200, "",
                          counted \o query_calls(filter),
                          fail \cap {"count_rows"}, 0,
                          rows_to_dicts(ScanRows(name, filter, limit)), {})
        /\ UNCHANGED <<tables, rows>>

----------------------------------------------------------------------------
(* The state after startup(): a connection to an empty storage root *)

(* no result set at hand, nothing materialized *)
NoRows == RawSet("list", <<>>, <<>>, <<>>)

NotMaterialized == [done |-> FALSE, docs |-> <<>>]

TypeOK ==
    /\ tables \subseteq Names
    /\ \A t \in Names : Len(rows[t]) <= MaxRows
    /\ \A t \in Names \ tables : rows[t] = <<>>

Init ==
    /\ tables = {}
    /\ rows = [t \in Names |-> <<>>]
    /\ last = NoResponse
    /\ queued = {}
    /\ running = {}
    /\ served = {}
    /\ raw = NoRows
    /\ out = NotMaterialized

----------------------------------------------------------------------------
(* The handlers on their own: a handler has no await, so nothing else runs *)
(* between its first line and its response.  fail is the set of engine     *)
(* calls that raise during the request: none, one, or both ways of         *)
(* counting.                                                               *)

Faults(points) ==
    {f \in SUBSET points :
        \/ Cardinality(f) <= 1 /\ "to_pandas" \notin f
        \/ f = {"count_rows", "to_pandas"}}

Idle == UNCHANGED <<queued, running, served, raw, out>>

ListTables == \E fail \in Faults({"table_names"}) : list_tables(fail) /\ Idle

CreateTable ==
    \E name \in Names, data \in Batches, fail \in Faults({"create_table"}) :
        create_table(name, data, fail) /\ Idle

DropTable ==
    \E name \in Names, fail \in Faults({"drop_table"}) : drop_table(name, fail) /\ Idle

CountRows ==
    \E name \in Names, fail \in Faults({"open_table", "count_rows", "to_pandas"}) :
        count_rows(name, fail) /\ Idle

AddDocuments ==
    \E name \in Names, data \in Batches, fail \in Faults({"open_table", "add"}) :
        add_documents(name, data, fail) /\ Idle

DeleteDocuments ==
    \E name \in Names, filter \in Filters, fail \in Faults({"open_table", "delete"}) :
        delete_documents(name, filter, fail) /\ Idle

(* vector, limit, distance_type and the engine's filter order are read    *)
(* only once the handler reaches the engine's search                      *)
VectorSearch ==
    \E name \in Names, filter \in SearchFilters,
       fail \in Faults({"open_table", "count_rows", "to_pandas", "to_arrow"}) :
        \E vector \in IF reaches_engine(name, fail) THEN Vectors ELSE {1},
           limit \in IF reaches_engine(name, fail) THEN Limits ELSE {1},
           distance_type \in IF reaches_engine(name, fail) THEN Metrics ELSE {"cosine"},
           prefilter \in IF reaches_engine(name, fail) /\ filter \in Predicates
                         THEN BOOLEAN ELSE {TRUE} :
            vector_search(name, vector, limit, distance_type, filter, prefilter, fail) /\ Idle

QueryTable ==
    \E name \in Names, filter \in SearchFilters,
       fail \in Faults({"open_table", "count_rows", "to_pandas", "to_arrow"}) :
        \E limit \in IF reaches_engine(name, fail) THEN Limits ELSE {1} :
            query_table(name, filter, limit, fail) /\ Idle

Next ==
    \/ ListTables
    \/ CreateTable
    \/ DropTable
    \/ CountRows
    \/ AddDocuments
    \/ DeleteDocuments
    \/ VectorSearch
    \/ QueryTable

Spec == Init /\ [][Next]_vars

----------------------------------------------------------------------------
(* Properties of the handlers *)

Opens == {"count", "add", "delete", "search", "query"}

Called(resp, call) == \E i \in 1..Len(resp.calls) : resp.calls[i] = call

(* every table but the named one is as it was *)
OthersKept(name) ==
    /\ tables' \ {name} = tables \ {name}
    /\ \A t \in Names \ {name} : rows'[t] = rows[t]

NothingChanged == tables' = tables /\ rows' = rows

(* C1: a request for a table that does not exist, once its body is        *)
(* accepted, is answered 404 by every handler that opens the table; and   *)
(* in the state a successful create_table(T, D) leaves, T opens and       *)
(* counts len(D) rows, D non-empty.                                       *)
C1_OpenTable ==
    /\ (last.op \in Opens /\ ~last.existed /\ last.status # 422) => last.status = 404
    /\ (last.op = "create" /\ last.status = 200) =>
            /\ last.data # <<>>
            /\ get_table(last.name, {})
            /\ count_value(last.name) = Len(last.data)
            /\ last.n = Len(last.data)

C1_Witness ==
    /\ last.op = "create" /\ last.status = 200 /\ Len(last.data) = 2
    /\ \E t \in Names \ tables : t # last.name

(* C2 as claimed: create_table on an existing name answers 409 whatever   *)
(* the payload, the engine raising nothing else.                          *)
C2_Original ==
    (last.op = "create" /\ last.existed /\ last.raised = {}) => last.status = 409

(* C2 amended: create_table on an existing name never succeeds and leaves *)
(* every table as it was; it answers 400 when data is empty, otherwise    *)
(* 409, or 500 when the engine raises something other than the collision. *)
C2_CreateExisting ==
    [][(last'.op = "create" /\ last'.existed) =>
            /\ NothingChanged
            /\ last'.status =
                    IF last'.data = <<>> THEN 400
                    ELSE IF last'.raised = {} THEN 409 ELSE 500]_vars

C2_Witness ==
    /\ last.op = "create" /\ last.existed /\ last.status = 409
    /\ last.before # <<>> /\ last.data # last.before

(* C3 as claimed: create_table and add_documents with an empty list       *)
(* answer 400 and call the engine not at all, the table there or not.     *)
C3_Original ==
    (last.op \in {"create", "add"} /\ last.data = <<>>) =>
        (last.status = 400 /\ last.calls = <<>>)

(* C3 amended: with an empty list create_table answers 400 without any    *)
(* engine call; add_documents first opens the table, its only engine      *)
(* call, and answers 404 when that fails and 400 when it succeeds;        *)
(* neither changes a table.                                               *)
C3_EmptyList ==
    [][/\ (last'.op = "create" /\ last'.data = <<>>) =>
            (last'.status = 400 /\ last'.calls = <<>> /\ NothingChanged)
       /\ (last'.op = "add" /\ last'.data = <<>>) =>
            /\ last'.calls = <<"open_table">>
            /\ last'.status = IF last'.existed /\ last'.raised = {} THEN 400 ELSE 404
            /\ NothingChanged]_vars

C3_Witness ==
    /\ last.op = "add" /\ last.data = <<>> /\ last.existed
    /\ last.status = 400 /\ last.before # <<>>

(* C4: drop_table of a missing table answers 404 and changes nothing; of  *)
(* an existing one (the engine dropping it) it answers 200, the name is   *)
(* gone from the listing and the other tables keep their rows; a name     *)
(* comes back only by a successful create_table, and until then every     *)
(* handler that opens it answers 404.                                     *)
C4_DropTable ==
    [][/\ (last'.op = "drop" /\ ~last'.existed) =>
            (last'.status = 404 /\ NothingChanged)
       /\ (last'.op = "drop" /\ last'.existed /\ last'.raised = {}) =>
            /\ last'.status = 200
            /\ last'.name \notin tables'
            /\ OthersKept(last'.name)
       /\ (last'.op = "list" /\ last'.status = 200) =>
            (last'.listing = tables /\ NothingChanged)
       /\ \A t \in tables' \ tables :
            last'.op = "create" /\ last'.name = t /\ last'.status = 200
       /\ (last'.op \in Opens /\ last'.name \notin tables /\ last'.status # 422) =>
            last'.status = 404]_vars

C4_Witness ==
    /\ last.op = "drop" /\ last.status = 200 /\ last.before # <<>>
    /\ \E t \in tables : rows[t] # <<>>

C6_EmptyTable ==
    (last.op \in {"search", "query"} /\ last.existed /\ last.before = <<>>) =>
        /\ ~Called(last, "search") /\ ~Called(last, "to_arrow")
        /\ ("open_table" \notin last.raised /\ "to_pandas" \notin last.raised) =>
                (last.status = 200 /\ last.results = <<>>)

C6_Witness ==
    /\ last.op = "search" /\ last.existed /\ last.before = <<>>
    /\ last.filter = "text = 'hello'" /\ last.status = 200 /\ last.results = <<>>

(* C7: add_documents that answers 200 reports len(D) and appends D to the *)
(* table, duplicates included, every other table as it was; it answers    *)
(* 200 whenever the table exists, D is non-empty and the engine raises    *)
(* nothing.                                                               *)
C7_AddDocuments ==
    [][/\ (last'.op = "add" /\ last'.status = 200) =>
            /\ last'.data # <<>>
            /\ last'.n = Len(last'.data)
            /\ rows'[last'.name] = rows[last'.name] \o last'.data
            /\ Len(rows'[last'.name]) = Len(rows[last'.name]) + Len(last'.data)
            /\ tables' = tables
            /\ OthersKept(last'.name)
       /\ (last'.op = "add" /\ last'.existed /\ last'.data # <<>> /\ last'.raised = {}) =>
            last'.status = 200]_vars

C7_Witness ==
    /\ last.op = "add" /\ last.status = 200
    /\ Elems(last.data) \cap Elems(last.before) # {}
    /\ \E t \in tables \ {last.name} : rows[t] # <<>>

(* C8: 404 is answered only for a table that is not there, 409 only for a *)
(* name that is taken, 400 only for an empty payload or filter, and an    *)
(* engine failure of any other kind is answered 500 with the engine's     *)
(* message.                                                               *)
C8_ErrorTaxonomy ==
    /\ last.status = 404 => ~last.existed
    /\ last.status = 409 => (last.op = "create" /\ last.existed)
    /\ last.status = 400 =>
            \/ last.op \in {"create", "add"} /\ last.data = <<>>
            \/ last.op = "delete" /\ last.filter = ""
    /\ (last.op # "list" /\ last.raised # {} /\ last.status # 200) =>
            (last.status = 500 /\ last.detail = EngineMessage)

----------------------------------------------------------------------------
(* _rows_to_dicts and _to_serializable on their own: every raw result set *)
(* of bounded size and depth is materialized once.                        *)

MaxDepth == 2

UpToOne(S) == {<<>>} \cup {<<x>> : x \in S}

UpToTwo(S) == UpToOne(S) \cup {<<x, y>> : x \in S, y \in S}

Builtins == {Scalar("int", "1"), Scalar("float", "0.5"), Scalar("str", "a")}

NumpyScalars == {Scalar("np.int64", "1"), Scalar("np.float32", "0.5"), Scalar("np.bool_", "True")}

ByteBuffers == {Scalar("bytes", "a"), Scalar("bytes", "\\xff")}

Leaves == Builtins \cup NumpyScalars \cup ByteBuffers

(* numeric arrays: numpy scalars in one dimension, arrays of arrays in more *)
RECURSIVE NumericArrays(_)
NumericArrays(d) ==
    IF d = 0 THEN {}
    ELSE {Container("ndarray", s) : s \in UpToTwo(NumpyScalars)}
         \cup {Container("ndarray", s) : s \in UpToOne(NumericArrays(d - 1)) \ {<<>>}}

(* columnar arrays: their elements are arrow values, lists are arrays again *)
RECURSIVE ArrowArrays(_)
ArrowArrays(d) ==
    IF d = 0 THEN {}
    ELSE {Container("pa.Array", s) :
            s \in UpToOne(Builtins \cup ByteBuffers \cup ArrowArrays(d - 1))}

(* the values of nesting depth d or less *)
RECURSIVE Values(_)
Values(d) ==
    IF d = 0 THEN Leaves
    ELSE Leaves
         \cup NumericArrays(d)
         \cup ArrowArrays(d)
         \cup {Container(kind, s) :
                kind \in {"list", "tuple", "ndarray[object]"}, s \in UpToOne(Values(d - 1))}
         \cup {Dict(<<"k">>, <<x>>) : x \in Values(d - 1)}

(* a row of a table or of a list is a mapping; any other iterable may     *)
(* yield rows of another type                                             *)
Mappings == {Dict(<<"k">>, <<x>>) : x \in Values(MaxDepth)}

RawSets ==
    {RawSet(shape, <<>>, <<>>, records) :
        shape \in {"table", "list"}, records \in UpToOne(Mappings)}
    \cup {RawSet("iter", <<>>, <<>>, records) :
            records \in UpToOne(Mappings \cup {Container("tuple", <<x>>) : x \in Leaves})}
    \cup {RawSet("pydict", <<>>, <<>>, <<>>)}
    \cup {RawSet("pydict", <<"k">>, <<column>>, <<>>) : column \in UpToOne(Values(MaxDepth))}

InitNorm ==
    /\ tables = {}
    /\ rows = [t \in Names |-> <<>>]
    /\ last = NoResponse
    /\ queued = {}
    /\ running = {}
    /\ served = {}
    /\ raw \in RawSets
    /\ out = NotMaterialized

Materialize ==
    /\ ~out.done
    /\ out' = [done |-> TRUE, docs |-> rows_to_dicts(raw)]
    /\ UNCHANGED <<tables, rows, last, queued, running, served, raw>>

NextNorm == Materialize

SpecNorm == InitNorm /\ [][NextNorm]_vars

(* a plain number, boolean, string, sequence or mapping, all the way down *)
RECURSIVE Plain(_)
Plain(value) ==
    \/ value.kind \in {"int", "float", "bool", "str"}
    \/ /\ value.kind \in {"list", "dict"}
       /\ \A i \in 1..Len(value.items) : Plain(value.items[i])

(* C9: every document that materialization returns is plain at every      *)
(* nesting depth.                                                         *)
C9_Canonical == out.done => \A i \in 1..Len(out.docs) : Plain(out.docs[i])

----------------------------------------------------------------------------
(* The handlers on uvicorn's event loop.  uvicorn.run(app) serves from    *)
(* one process with one event loop; every handler is a coroutine          *)
(* ("async def") that calls the engine synchronously and never awaits, so *)
(* from the moment the loop starts a handler until the handler returns    *)
(* the loop's only thread is inside that handler.                         *)

NumRequests == 3

Requests == 1..NumRequests

(* a request reaches the listening socket *)
arrive(r) ==
    /\ r \notin queued \cup running \cup served
    /\ queued' = queued \cup {r}
    /\ UNCHANGED <<tables, rows, last, running, served, raw, out>>

(* the loop takes a request and enters its handler; it can do so only     *)
(* when it is not inside another handler                                  *)
start(r) ==
    /\ r \in queued
    /\ running = {}
    /\ queued' = queued \ {r}
    /\ running' = {r}
    /\ UNCHANGED <<tables, rows, last, served, raw, out>>

(* the engine call of the running handler returns and the handler answers *)
finish(r) ==
    /\ r \in running
    /\ \E name \in Names :
        \/ create_table(name, <<"hello">>, {})
        \/ add_documents(name, <<"world">>, {})
        \/ count_rows(name, {})
        \/ vector_search(name, 1, 1, "cosine", Absent, TRUE, {})
    /\ running' = {}
    /\ served' = served \cup {r}
    /\ UNCHANGED <<queued, raw, out>>

NextLoop == \E r \in Requests : arrive(r) \/ start(r) \/ finish(r)

SpecLoop == Init /\ [][NextLoop]_vars

LoopOK ==
    /\ Cardinality(running) <= 1
    /\ queued \cap running = {} /\ queued \cap served = {} /\ running \cap served = {}

(* C10: while a request is inside its handler's engine call, a request    *)
(* that waits can be started.                                             *)
C10_NotStalled == \A r \in running : \A q \in queued : ENABLED start(q)

====
